---- MODULE Spec2Model ----
(***************************************************************************)
(* Model of src/src/lib.rs: the ballot (struct Vote) and the registry      *)
(* (struct Voting) that dispatches calls to it.                            *)
(*                                                                         *)
(* A HashMap is a function whose DOMAIN is its key set.  Option<Pubkey>    *)
(* is a Pubkey or the value None.  A method is an operator from the       *)
(* object and the arguments to the object after the call and the result;   *)
(* an action applies it to inputs drawn from the input sets.               *)
(*                                                                         *)
(* Every failure of the code returns the one value                         *)
(* ProgramError::InvalidArgument; a result of the model carries that value *)
(* in the field err and, next to it, in the field site, the return         *)
(* statement that produced it, named after the condition that the          *)
(* statement's comment gives.                                              *)
(***************************************************************************)
EXTENDS Integers, Sequences, FiniteSets, TLC

\* ------------------------------------------------------------------ bounds
\* Successful calls of the methods that take &mut self and write
\* (create_vote, add_allowed_voter, remove_allowed_voter, vote,
\* delegate_vote, close_vote) in one run; failing calls and reads are
\* not counted.
MaxCalls == 5
\* Ballots one run creates (the value current_id reaches).
MaxVotes == 2

\* ------------------------------------------------------------------ inputs
Pubkeys == {"k1", "k2", "k3"}
None == "None"
Titles == {"Test Vote"}
\* Two positions hold the same text, one holds another.
OptionLists == {<<"A", "B", "A">>}
\* accounts: &[AccountInfo]; only accounts[0].key is ever read.
AccountLists == {<< >>} \cup {<<k>> : k \in Pubkeys}
\* The code only compares identities for equality, so a ballot with another
\* creator is a renaming of a ballot with this one (every other input
\* ranges over all of Pubkeys).
CreatorLists == {<< >>, <<"k1">>}

\* votes, current_id: the fields of struct Voting.
\* enrolls[id]: successful add_allowed_voter calls on ballot id (history).
\* closed: the ids on which close_vote has succeeded (history).
\* cast[id][i]: successful vote calls on ballot id with option_index i
\* (history).
\* calls: successful writing calls so far (history, bounded by MaxCalls).
\* panicked: the process has ended in a panic.
VARIABLES votes, current_id, enrolls, closed, cast, calls, panicked

vars == <<votes, current_id, enrolls, closed, cast, calls, panicked>>

\* ----------------------------------------------------------------- results
Ok(v) == [ok |-> TRUE, val |-> v, err |-> "", site |-> ""]
Err(s) == [ok |-> FALSE, val |-> << >>, err |-> "InvalidArgument", site |-> s]

\* ----------------------------------------------------------------- HashMap
contains_key(m, k) == k \in DOMAIN m
insert(m, k, v) == [x \in (DOMAIN m) \cup {k} |-> IF x = k THEN v ELSE m[x]]
remove(m, k) == [x \in (DOMAIN m) \ {k} |-> m[x]]
EmptyMap == << >>

\* votes_left and the tally counts are u32; within MaxCalls calls they stay
\* far below 2^32, so += 1 never wraps, and -= 1 is guarded by > 0.
VoterInfo(n, d) == [votes_left |-> n, delegate |-> d]

\* -------------------------------------------------------------- impl Vote
\* Each method yields the ballot after the call and the call's result.
Out(v, r) == [vote |-> v, res |-> r]

Vote_get_options(v) == v.options

\* Mutant: re-enrollment adds one to the allowance the entry holds.
Vote_add_allowed_voter_Additive(v, voter, caller) ==
    IF caller # v.creator THEN Out(v, Err("NotCreator"))
    ELSE IF ~v.is_vote_open THEN Out(v, Err("BallotClosed"))
    ELSE IF contains_key(v.allowed_voters, voter)
    THEN Out([v EXCEPT !.allowed_voters[voter].votes_left = @ + 1], Ok(<< >>))
    ELSE Out([v EXCEPT !.allowed_voters = insert(@, voter, VoterInfo(1, None))],
             Ok(<< >>))

\* Mutant: an entry that exists is kept as it is (entry().or_insert()).
Vote_add_allowed_voter_KeepExisting(v, voter, caller) ==
    IF caller # v.creator THEN Out(v, Err("NotCreator"))
    ELSE IF ~v.is_vote_open THEN Out(v, Err("BallotClosed"))
    ELSE IF contains_key(v.allowed_voters, voter) THEN Out(v, Ok(<< >>))
    ELSE Out([v EXCEPT !.allowed_voters = insert(@, voter, VoterInfo(1, None))],
             Ok(<< >>))

\* Mutant: enrollment does not look at is_vote_open.
Vote_add_allowed_voter_NoOpenCheck(v, voter, caller) ==
    IF caller # v.creator THEN Out(v, Err("NotCreator"))
    ELSE Out([v EXCEPT !.allowed_voters = insert(@, voter, VoterInfo(1, None))],
             Ok(<< >>))

Vote_add_allowed_voter(v, voter, caller) ==
    IF caller # v.creator THEN Out(v, Err("NotCreator"))
    ELSE IF ~v.is_vote_open THEN Out(v, Err("BallotClosed"))
    ELSE Out([v EXCEPT !.allowed_voters = insert(@, voter, VoterInfo(1, None))],
             Ok(<< >>))

\* Mutant: the entry is kept with votes_left 0 instead of being removed.
Vote_remove_allowed_voter_Zeroes(v, voter, caller) ==
    IF caller # v.creator THEN Out(v, Err("NotCreator"))
    ELSE IF ~v.is_vote_open THEN Out(v, Err("BallotClosed"))
    ELSE IF contains_key(v.allowed_voters, voter)
         THEN Out([v EXCEPT !.allowed_voters[voter].votes_left = 0], Ok(<< >>))
         ELSE Out(v, Err("VoterNotFound"))

\* Mutant: the open check is left out.
Vote_remove_allowed_voter_NoOpenCheck(v, voter, caller) ==
    IF caller # v.creator THEN Out(v, Err("NotCreator"))
    ELSE IF contains_key(v.allowed_voters, voter)
         THEN Out([v EXCEPT !.allowed_voters = remove(@, voter)], Ok(<< >>))
         ELSE Out(v, Err("VoterNotFound"))

Vote_remove_allowed_voter(v, voter, caller) ==
    IF caller # v.creator THEN Out(v, Err("NotCreator"))
    ELSE IF ~v.is_vote_open THEN Out(v, Err("BallotClosed"))
    ELSE IF contains_key(v.allowed_voters, voter)
         THEN Out([v EXCEPT !.allowed_voters = remove(@, voter)], Ok(<< >>))
         ELSE Out(v, Err("VoterNotFound"))

Vote_is_voter_allowed(v, voter) == contains_key(v.allowed_voters, voter)

\* Mutant: the entry is overwritten with 1 instead of incremented.
TallyVote_Reset(tally, option_key) == insert(tally, option_key, 1)

\* Mutant: a vote is counted twice.
TallyVote_Twice(tally, option_key) ==
    LET t0 == IF contains_key(tally, option_key) THEN tally
              ELSE insert(tally, option_key, 0)
    IN  [t0 EXCEPT ![option_key] = @ + 2]

\* self.votes.entry(option_key).or_insert(0); *count += 1
TallyVote(tally, option_key) ==
    LET t0 == IF contains_key(tally, option_key) THEN tally
              ELSE insert(tally, option_key, 0)
    IN  [t0 EXCEPT ![option_key] = @ + 1]

\* Mutant: the tally is keyed by the ballot's title.
Vote_vote_KeyByTitle(v, voter, option_index) ==
    IF ~Vote_is_voter_allowed(v, voter) THEN Out(v, Err("VoterNotAllowed"))
    ELSE IF ~v.is_vote_open THEN Out(v, Err("BallotClosed"))
    ELSE LET voter_info == v.allowed_voters[voter] IN
         IF voter_info.votes_left <= 0 THEN Out(v, Err("NoAllowanceLeft"))
         ELSE IF option_index >= Len(v.options)
         THEN Out(v, Err("OptionIndexOutOfRange"))
         ELSE Out([v EXCEPT !.votes = TallyVote(@, v.title),
                            !.allowed_voters[voter].votes_left = @ - 1],
                  Ok(<< >>))

\* Mutant: votes_left is taken before the option index is checked.
Vote_vote_DebitFirst(v, voter, option_index) ==
    IF ~Vote_is_voter_allowed(v, voter) THEN Out(v, Err("VoterNotAllowed"))
    ELSE IF ~v.is_vote_open THEN Out(v, Err("BallotClosed"))
    ELSE IF v.allowed_voters[voter].votes_left <= 0
    THEN Out(v, Err("NoAllowanceLeft"))
    ELSE LET v1 == [v EXCEPT !.allowed_voters[voter].votes_left = @ - 1] IN
         IF option_index >= Len(v.options)
         THEN Out(v1, Err("OptionIndexOutOfRange"))
         ELSE Out([v1 EXCEPT !.votes =
                       TallyVote(@, v.options[option_index + 1])],
                  Ok(<< >>))

\* Mutant: the open check is made before the roster check.
Vote_vote_ClosedFirst(v, voter, option_index) ==
    IF ~v.is_vote_open THEN Out(v, Err("BallotClosed"))
    ELSE IF ~Vote_is_voter_allowed(v, voter) THEN Out(v, Err("VoterNotAllowed"))
    ELSE LET voter_info == v.allowed_voters[voter] IN
         IF voter_info.votes_left <= 0 THEN Out(v, Err("NoAllowanceLeft"))
         ELSE IF option_index >= Len(v.options)
         THEN Out(v, Err("OptionIndexOutOfRange"))
         ELSE LET option_key == v.options[option_index + 1] IN
              Out([v EXCEPT !.votes = TallyVote(@, option_key),
                            !.allowed_voters[voter].votes_left = @ - 1],
                  Ok(<< >>))

Vote_vote(v, voter, option_index) ==
    IF ~Vote_is_voter_allowed(v, voter) THEN Out(v, Err("VoterNotAllowed"))
    ELSE IF ~v.is_vote_open THEN Out(v, Err("BallotClosed"))
    ELSE IF contains_key(v.allowed_voters, voter)
    THEN LET voter_info == v.allowed_voters[voter] IN
         IF voter_info.votes_left <= 0 THEN Out(v, Err("NoAllowanceLeft"))
         ELSE IF option_index >= Len(v.options)
         THEN Out(v, Err("OptionIndexOutOfRange"))
         ELSE LET option_key == v.options[option_index + 1] IN
              Out([v EXCEPT !.votes = TallyVote(@, option_key),
                            !.allowed_voters[voter].votes_left = @ - 1],
                  Ok(<< >>))
    ELSE Out(v, Err("VoterNotAllowed"))

\* Mutant: the decremented clone is never written back, so the delegator
\* keeps the unit the delegate receives.
DelegateRoster_NoDebit(allowed_voters, delegate, delegator) ==
    LET m1 == IF contains_key(allowed_voters, delegate) THEN allowed_voters
              ELSE insert(allowed_voters, delegate, VoterInfo(0, None))
        m2 == [m1 EXCEPT ![delegate].votes_left = @ + 1]
    IN  [m2 EXCEPT ![delegator].delegate = delegate]

\* The delegator's record is cloned first, the delegate's entry is then
\* created or incremented in the map, and the clone (decremented, delegate
\* set) is written back over the delegator's entry last.
DelegateRoster(allowed_voters, delegate, delegator) ==
    LET voter_info == allowed_voters[delegator]
        updated    == [voter_info EXCEPT !.votes_left = @ - 1]
        m1 == IF contains_key(allowed_voters, delegate) THEN allowed_voters
              ELSE insert(allowed_voters, delegate, VoterInfo(0, None))
        m2 == [m1 EXCEPT ![delegate].votes_left = @ + 1]
    IN  insert(m2, delegator, [updated EXCEPT !.delegate = delegate])

\* Mutant: the delegate's entry is created before the delegator's
\* votes_left is checked.
Vote_delegate_vote_EntryFirst(v, delegate, delegator) ==
    IF contains_key(v.allowed_voters, delegator)
    THEN IF ~v.is_vote_open THEN Out(v, Err("BallotClosed"))
         ELSE LET m1 == IF contains_key(v.allowed_voters, delegate)
                        THEN v.allowed_voters
                        ELSE insert(v.allowed_voters, delegate,
                                    VoterInfo(0, None))
                  v1 == [v EXCEPT !.allowed_voters = m1]
              IN  IF v.allowed_voters[delegator].votes_left > 0
                  THEN Out([v EXCEPT !.allowed_voters =
                                DelegateRoster(@, delegate, delegator)],
                           Ok(<< >>))
                  ELSE Out(v1, Err("NoAllowanceLeft"))
    ELSE Out(v, Err("VoterNotAllowed"))

\* Mutant: the delegate has to be in the roster.
Vote_delegate_vote_Strict(v, delegate, delegator) ==
    IF contains_key(v.allowed_voters, delegator)
    THEN IF ~v.is_vote_open THEN Out(v, Err("BallotClosed"))
         ELSE IF ~contains_key(v.allowed_voters, delegate)
         THEN Out(v, Err("VoterNotAllowed"))
         ELSE IF v.allowed_voters[delegator].votes_left > 0
         THEN Out([v EXCEPT !.allowed_voters =
                                DelegateRoster(@, delegate, delegator)],
                  Ok(<< >>))
         ELSE Out(v, Err("NoAllowanceLeft"))
    ELSE Out(v, Err("VoterNotAllowed"))

Vote_delegate_vote(v, delegate, delegator) ==
    IF contains_key(v.allowed_voters, delegator)
    THEN IF ~v.is_vote_open THEN Out(v, Err("BallotClosed"))
         ELSE IF v.allowed_voters[delegator].votes_left > 0
         THEN Out([v EXCEPT !.allowed_voters =
                                DelegateRoster(@, delegate, delegator)],
                  Ok(<< >>))
         ELSE Out(v, Err("NoAllowanceLeft"))
    ELSE Out(v, Err("VoterNotAllowed"))

\* ------------------------------------------------------------ impl Voting
\* self is [votes, current_id]; each method yields self after the call and
\* the call's result.
Ret(self, r) == [self |-> self, res |-> r]

\* Mutant: the creator is enrolled by creation.
NewVote_Enrolled(id, title, options, is_close_vote_results, creator) ==
    [id |-> id, title |-> title, options |-> options,
     votes |-> EmptyMap, creator |-> creator,
     allowed_voters |-> insert(EmptyMap, creator, VoterInfo(1, None)),
     is_close_vote_results |-> is_close_vote_results, is_vote_open |-> TRUE]

NewVote(id, title, options, is_close_vote_results, creator) ==
    [id |-> id, title |-> title, options |-> options,
     votes |-> EmptyMap, creator |-> creator, allowed_voters |-> EmptyMap,
     is_close_vote_results |-> is_close_vote_results, is_vote_open |-> TRUE]

\* Mutant: the counter is not advanced.
Voting_create_vote_NoIncrement(self, title, options, is_close_vote_results, accounts) ==
    IF accounts = << >> THEN Ret(self, Err("NoCaller"))
    ELSE LET creator == accounts[1]
             v == NewVote(self.current_id, title, options,
                          is_close_vote_results, creator)
             s1 == [self EXCEPT !.votes = insert(@, self.current_id, v)]
         IN  Ret(s1, Ok(s1.current_id))

Voting_create_vote(self, title, options, is_close_vote_results, accounts) ==
    IF accounts = << >> THEN Ret(self, Err("NoCaller"))
    ELSE LET creator == accounts[1]
             v == NewVote(self.current_id, title, options,
                          is_close_vote_results, creator)
             s1 == [self EXCEPT !.votes = insert(@, self.current_id, v)]
             s2 == [s1 EXCEPT !.current_id = @ + 1]
         IN  Ret(s2, Ok(s2.current_id - 1))

\* Mutant: a vote is refused while the voter has allowance left in an
\* earlier ballot.
Voting_vote_EarlierFirst(self, vote_id, accounts, option_index) ==
    IF ~contains_key(self.votes, vote_id) THEN Ret(self, Err("BallotNotFound"))
    ELSE IF accounts = << >> THEN Ret(self, Err("NoCaller"))
    ELSE IF \E id \in DOMAIN self.votes :
               /\ id < vote_id
               /\ contains_key(self.votes[id].allowed_voters, accounts[1])
               /\ self.votes[id].allowed_voters[accounts[1]].votes_left > 0
    THEN Ret(self, Err("VoterNotAllowed"))
    ELSE LET o == Vote_vote(self.votes[vote_id], accounts[1], option_index)
         IN  Ret([self EXCEPT !.votes[vote_id] = o.vote], o.res)

Voting_vote(self, vote_id, accounts, option_index) ==
    IF ~contains_key(self.votes, vote_id) THEN Ret(self, Err("BallotNotFound"))
    ELSE IF accounts = << >> THEN Ret(self, Err("NoCaller"))
    ELSE LET o == Vote_vote(self.votes[vote_id], accounts[1], option_index)
         IN  Ret([self EXCEPT !.votes[vote_id] = o.vote], o.res)

\* Mutant: close_vote toggles the flag.
Voting_close_vote_Toggle(self, vote_id, accounts) ==
    IF accounts = << >> THEN Ret(self, Err("NoCaller"))
    ELSE IF ~contains_key(self.votes, vote_id)
    THEN Ret(self, Err("BallotNotFound"))
    ELSE IF self.votes[vote_id].creator # accounts[1]
    THEN Ret(self, Err("NotCreator"))
    ELSE Ret([self EXCEPT !.votes[vote_id].is_vote_open = ~@], Ok(<< >>))

\* Mutant: the creator check is left out.
Voting_close_vote_NoCreatorCheck(self, vote_id, accounts) ==
    IF accounts = << >> THEN Ret(self, Err("NoCaller"))
    ELSE IF contains_key(self.votes, vote_id)
    THEN Ret([self EXCEPT !.votes[vote_id].is_vote_open = FALSE], Ok(<< >>))
    ELSE Ret(self, Err("BallotNotFound"))

Voting_close_vote(self, vote_id, accounts) ==
    IF accounts = << >> THEN Ret(self, Err("NoCaller"))
    ELSE IF contains_key(self.votes, vote_id)
    THEN IF self.votes[vote_id].creator # accounts[1]
         THEN Ret(self, Err("NotCreator"))
         ELSE Ret([self EXCEPT !.votes[vote_id].is_vote_open = FALSE],
                  Ok(<< >>))
    ELSE Ret(self, Err("BallotNotFound"))

\* Mutant: a successful read hands the tally out and leaves none behind.
Voting_get_results_Drain(self, vote_id, accounts) ==
    IF accounts = << >> THEN Ret(self, Err("NoCaller"))
    ELSE IF ~contains_key(self.votes, vote_id)
    THEN Ret(self, Err("BallotNotFound"))
    ELSE IF /\ self.votes[vote_id].is_close_vote_results
            /\ ~Vote_is_voter_allowed(self.votes[vote_id], accounts[1])
    THEN Ret(self, Err("VoterNotAllowed"))
    ELSE Ret([self EXCEPT !.votes[vote_id].votes = EmptyMap],
             Ok(self.votes[vote_id].votes))

\* Mutant: the restriction flag is not consulted.
Voting_get_results_Unrestricted(self, vote_id, accounts) ==
    IF accounts = << >> THEN Ret(self, Err("NoCaller"))
    ELSE IF ~contains_key(self.votes, vote_id)
    THEN Ret(self, Err("BallotNotFound"))
    ELSE Ret(self, Ok(self.votes[vote_id].votes))

Voting_get_results(self, vote_id, accounts) ==
    IF accounts = << >> THEN Ret(self, Err("NoCaller"))
    ELSE IF ~contains_key(self.votes, vote_id)
    THEN Ret(self, Err("BallotNotFound"))
    ELSE IF /\ self.votes[vote_id].is_close_vote_results
            /\ ~Vote_is_voter_allowed(self.votes[vote_id], accounts[1])
    THEN Ret(self, Err("VoterNotAllowed"))
    ELSE Ret(self, Ok(self.votes[vote_id].votes))

Voting_add_allowed_voter(self, vote_id, voter, accounts) ==
    IF accounts = << >> THEN Ret(self, Err("NoCaller"))
    ELSE IF contains_key(self.votes, vote_id)
    THEN LET o == Vote_add_allowed_voter(self.votes[vote_id], voter,
                                         accounts[1])
         IN  Ret([self EXCEPT !.votes[vote_id] = o.vote], o.res)
    ELSE Ret(self, Err("BallotNotFound"))

Voting_remove_allowed_voter(self, vote_id, voter, accounts) ==
    IF accounts = << >> THEN Ret(self, Err("NoCaller"))
    ELSE IF contains_key(self.votes, vote_id)
    THEN LET o == Vote_remove_allowed_voter(self.votes[vote_id], voter,
                                            accounts[1])
         IN  Ret([self EXCEPT !.votes[vote_id] = o.vote], o.res)
    ELSE Ret(self, Err("BallotNotFound"))

Voting_is_voter_allowed(self, vote_id, voter) ==
    IF contains_key(self.votes, vote_id)
    THEN Ret(self, Ok(Vote_is_voter_allowed(self.votes[vote_id], voter)))
    ELSE Ret(self, Err("BallotNotFound"))

Voting_delegate_vote(self, vote_id, delegate, accounts) ==
    IF ~contains_key(self.votes, vote_id) THEN Ret(self, Err("BallotNotFound"))
    ELSE IF accounts = << >> THEN Ret(self, Err("NoCaller"))
    ELSE LET o == Vote_delegate_vote(self.votes[vote_id], delegate,
                                     accounts[1])
         IN  Ret([self EXCEPT !.votes[vote_id] = o.vote], o.res)

Voting_get_options(self, vote_id) ==
    IF contains_key(self.votes, vote_id)
    THEN Ret(self, Ok(Vote_get_options(self.votes[vote_id])))
    ELSE Ret(self, Err("BallotNotFound"))

\* ---------------------------------------------------------------- actions
\* The registry as the methods receive it.
Self == [votes |-> votes, current_id |-> current_id]

\* The registry becomes what the call left; no call is made once the
\* process has panicked.
Becomes(o) ==
    /\ ~panicked
    /\ votes' = o.self.votes
    /\ current_id' = o.self.current_id
    /\ UNCHANGED panicked

\* A writing call: it is counted when it succeeds, and is not made once
\* MaxCalls of them have succeeded.
Writes(o) ==
    /\ o.res.ok => calls < MaxCalls
    /\ Becomes(o)
    /\ calls' = IF o.res.ok THEN calls + 1 ELSE calls

\* A read: the registry is handed back as it was.
Reads(o) ==
    /\ Becomes(o)
    /\ UNCHANGED calls

\* Ballot ids a caller names: the stored ones and one that is absent.
VoteIds == 0..current_id

\* Option indices a caller passes: the valid ones and the first invalid one.
OptionIndices(vote_id) ==
    IF contains_key(votes, vote_id) THEN 0..Len(votes[vote_id].options)
    ELSE {0}

\* TestVoting::new
Init ==
    /\ votes = EmptyMap
    /\ current_id = 0
    /\ enrolls = EmptyMap
    /\ closed = {}
    /\ cast = EmptyMap
    /\ calls = 0
    /\ panicked = FALSE

create_vote ==
    \E title \in Titles, options \in OptionLists,
       is_close_vote_results \in BOOLEAN, accounts \in CreatorLists :
        LET o == Voting_create_vote(Self, title, options,
                                    is_close_vote_results, accounts)
        IN  /\ current_id < MaxVotes
            /\ Writes(o)
            /\ enrolls' = IF o.res.ok THEN insert(enrolls, o.res.val, 0)
                          ELSE enrolls
            /\ cast' = IF o.res.ok
                       THEN insert(cast, o.res.val,
                                   [i \in 0..(Len(options) - 1) |-> 0])
                       ELSE cast
            /\ UNCHANGED closed

vote ==
    \E vote_id \in VoteIds, accounts \in AccountLists :
      \E option_index \in OptionIndices(vote_id) :
        LET o == Voting_vote(Self, vote_id, accounts, option_index)
        IN  /\ Writes(o)
            /\ cast' = IF o.res.ok
                       THEN [cast EXCEPT ![vote_id][option_index] = @ + 1]
                       ELSE cast
            /\ UNCHANGED <<enrolls, closed>>

close_vote ==
    \E vote_id \in VoteIds, accounts \in AccountLists :
        LET o == Voting_close_vote(Self, vote_id, accounts)
        IN  /\ Writes(o)
            /\ closed' = IF o.res.ok THEN closed \cup {vote_id} ELSE closed
            /\ UNCHANGED <<enrolls, cast>>

get_results ==
    \E vote_id \in VoteIds, accounts \in AccountLists :
        /\ Reads(Voting_get_results(Self, vote_id, accounts))
        /\ UNCHANGED <<enrolls, closed, cast>>

add_allowed_voter ==
    \E vote_id \in VoteIds, voter \in Pubkeys, accounts \in AccountLists :
        LET o == Voting_add_allowed_voter(Self, vote_id, voter, accounts)
        IN  /\ Writes(o)
            /\ enrolls' = IF o.res.ok THEN [enrolls EXCEPT ![vote_id] = @ + 1]
                          ELSE enrolls
            /\ UNCHANGED <<closed, cast>>

remove_allowed_voter ==
    \E vote_id \in VoteIds, voter \in Pubkeys, accounts \in AccountLists :
        /\ Writes(Voting_remove_allowed_voter(Self, vote_id, voter, accounts))
        /\ UNCHANGED <<enrolls, closed, cast>>

is_voter_allowed ==
    \E vote_id \in VoteIds, voter \in Pubkeys :
        /\ Reads(Voting_is_voter_allowed(Self, vote_id, voter))
        /\ UNCHANGED <<enrolls, closed, cast>>

delegate_vote ==
    \E vote_id \in VoteIds, delegate \in Pubkeys, accounts \in AccountLists :
        /\ Writes(Voting_delegate_vote(Self, vote_id, delegate, accounts))
        /\ UNCHANGED <<enrolls, closed, cast>>

get_options ==
    \E vote_id \in VoteIds :
        /\ Reads(Voting_get_options(Self, vote_id))
        /\ UNCHANGED <<enrolls, closed, cast>>

Next ==
    \/ create_vote
    \/ vote
    \/ close_vote
    \/ get_results
    \/ add_allowed_voter
    \/ remove_allowed_voter
    \/ is_voter_allowed
    \/ delegate_vote
    \/ get_options

Spec == Init /\ [][Next]_vars

\* ------------------------------------------------ the counter at its maximum
\* current_id is a u32.  2^32 is beyond the integers TLC computes with, so a
\* u32 value from 2^31 up is written as the negative integer congruent to it
\* modulo 2^32 (the i32 with the same bits): u32::MAX = 2^32 - 1 is -1 and
\* u32::MAX - n is -1 - n.  Under this reading + 1 and - 1 on integers are
\* the wrapping u32 operations: -1 + 1 = 0 is u32::MAX wrapping to 0, and
\* 0 - 1 = -1 is 0 wrapping to u32::MAX.
U32Max == -1

\* How many ballots short of u32::MAX the counter starts at most.
WrapRoom == 1

\* Registries in which ballot 0 has been created by k1, with k2 enrolled
\* and k2's vote cast, and then closed or left open.
FirstBallots ==
    LET new == [votes |-> EmptyMap, current_id |-> 0]
    IN  UNION { LET r0 == Voting_create_vote(new, t, o, f, <<"k1">>).self
                    r1 == Voting_add_allowed_voter(r0, 0, "k2", <<"k1">>).self
                    r2 == Voting_vote(r1, 0, <<"k2">>, 0).self
                IN  {r2, Voting_close_vote(r2, 0, <<"k1">>).self}
              : t \in Titles, o \in OptionLists, f \in BOOLEAN }

\* The registry after so many create_vote calls that current_id is at, or
\* WrapRoom short of, u32::MAX.  Of its ballots the model follows ballot 0;
\* the others, with keys from 1 up to current_id - 1, are left out.
InitWrap ==
    /\ \E r \in FirstBallots :
        /\ votes = r.votes
        /\ closed = IF r.votes[0].is_vote_open THEN {} ELSE {0}
        /\ cast = (0 :> [i \in 0..(Len(r.votes[0].options) - 1) |->
                            IF i = 0 THEN 1 ELSE 0])
    /\ current_id \in (U32Max - WrapRoom)..U32Max
    /\ enrolls = (0 :> 1)
    /\ calls = 0
    /\ panicked = FALSE

\* create_vote with current_id = u32::MAX in a build with overflow checks
\* (the default of the dev profile): the ballot has been inserted when
\* `self.current_id += 1` panics.  In a build without them (the default
\* of the release profile) the sum wraps, which is what create_vote does
\* under the reading of U32Max.
create_vote_overflow ==
    \E title \in Titles, options \in OptionLists,
       is_close_vote_results \in BOOLEAN, accounts \in CreatorLists \ {<< >>} :
        /\ ~panicked
        /\ current_id = U32Max
        /\ votes' = insert(votes, current_id,
                           NewVote(current_id, title, options,
                                   is_close_vote_results, accounts[1]))
        /\ panicked' = TRUE
        /\ UNCHANGED <<current_id, enrolls, closed, cast, calls>>

NextWrap == Next \/ create_vote_overflow

SpecWrap == InitWrap /\ [][NextWrap]_vars

\* ================================================================= claims
\* Vocabulary of the claims.
RECURSIVE SumOver(_, _)
\* The sum of f[x] over the finite set S.
SumOver(f, S) ==
    IF S = {} THEN 0
    ELSE LET x == CHOOSE y \in S : TRUE IN f[x] + SumOver(f, S \ {x})

\* remainingAllowance summed over a roster.
SumAllowance(roster) ==
    SumOver([k \in DOMAIN roster |-> roster[k].votes_left], DOMAIN roster)

\* The votes a tally records.
TotalVotes(tally) == SumOver(tally, DOMAIN tally)

\* The count a tally reports for a text (0 when it has no entry).
Count(tally, text) == IF text \in DOMAIN tally THEN tally[text] ELSE 0

\* Allowance still held plus votes already cast, of one ballot.
Held(v) == SumAllowance(v.allowed_voters) + TotalVotes(v.votes)

\* Caller lists that name a caller.
Callers == {<<k>> : k \in Pubkeys}

\* C1: in every ballot, remaining allowance summed over the roster plus the
\* votes in the tally is at most the number of successful enrollments of
\* that ballot, and no revocation and no delegation (to an enrolled
\* identity, to one not enrolled, or to oneself) leaves the sum greater
\* than it was.
C1_AllowanceConservation ==
    \A id \in DOMAIN votes :
        /\ Held(votes[id]) <= enrolls[id]
        /\ \A k \in Pubkeys, accounts \in AccountLists :
            LET r == Voting_remove_allowed_voter(Self, id, k, accounts)
                d == Voting_delegate_vote(Self, id, k, accounts)
            IN  /\ Held(r.self.votes[id]) <= Held(votes[id])
                /\ Held(d.self.votes[id]) <= Held(votes[id])

\* Two enrollments, a delegation and a vote have happened on one ballot and
\* nothing was lost: the sum equals the number of enrollments.
C1_Witness ==
    \E id \in DOMAIN votes :
        /\ enrolls[id] >= 2
        /\ TotalVotes(votes[id].votes) >= 1
        /\ \E k \in DOMAIN votes[id].allowed_voters :
               votes[id].allowed_voters[k].delegate # None
        /\ Held(votes[id]) = enrolls[id]

\* C2 (as stated): once close_vote has succeeded on an id, every vote,
\* add_allowed_voter, remove_allowed_voter and delegate_vote call on that id
\* fails at the closed-ballot check, whoever the caller and whatever the
\* target and the option index.
C2_Original ==
    \A id \in closed, accounts \in Callers, k \in Pubkeys :
        /\ \A i \in OptionIndices(id) :
               Voting_vote(Self, id, accounts, i).res = Err("BallotClosed")
        /\ Voting_add_allowed_voter(Self, id, k, accounts).res
               = Err("BallotClosed")
        /\ Voting_remove_allowed_voter(Self, id, k, accounts).res
               = Err("BallotClosed")
        /\ Voting_delegate_vote(Self, id, k, accounts).res
               = Err("BallotClosed")

\* C2 (amended): once close_vote has succeeded on an id, every vote,
\* add_allowed_voter, remove_allowed_voter and delegate_vote call on that id
\* fails and changes nothing; it fails at the closed-ballot check exactly
\* when the caller passes the check made before it (the caller is in the
\* roster, for vote and delegate_vote; the caller is the creator, for
\* add_allowed_voter and remove_allowed_voter), and otherwise at that
\* earlier check (or at the empty-caller-list check).
C2_ClosedRejects ==
    \A id \in closed, accounts \in AccountLists, k \in Pubkeys :
        LET v == votes[id]
            named == accounts # << >>
            enrolled == named /\ accounts[1] \in DOMAIN v.allowed_voters
            creator == named /\ accounts[1] = v.creator
            byVoter == IF ~named THEN "NoCaller"
                       ELSE IF enrolled THEN "BallotClosed"
                       ELSE "VoterNotAllowed"
            byCreator == IF ~named THEN "NoCaller"
                         ELSE IF creator THEN "BallotClosed"
                         ELSE "NotCreator"
            a == Voting_add_allowed_voter(Self, id, k, accounts)
            r == Voting_remove_allowed_voter(Self, id, k, accounts)
            d == Voting_delegate_vote(Self, id, k, accounts)
        IN  /\ \A i \in OptionIndices(id) :
                LET c == Voting_vote(Self, id, accounts, i)
                IN  c.res = Err(byVoter) /\ c.self = Self
            /\ a.res = Err(byCreator) /\ a.self = Self
            /\ r.res = Err(byCreator) /\ r.self = Self
            /\ d.res = Err(byVoter) /\ d.self = Self

\* A closed ballot whose roster holds an identity with allowance left, and
\* not every identity.
C2_Witness ==
    \E id \in closed :
        /\ \E k \in DOMAIN votes[id].allowed_voters :
               votes[id].allowed_voters[k].votes_left >= 1
        /\ DOMAIN votes[id].allowed_voters # Pubkeys

\* C3: on an existing ballot, add_allowed_voter, remove_allowed_voter and
\* close_vote called by an identity other than the ballot's creator fail at
\* the creator check and change nothing, whether the ballot is open or
\* closed and whether or not the target is in the roster.
C3_AccessControl ==
    \A id \in DOMAIN votes, accounts \in Callers, k \in Pubkeys :
        accounts[1] # votes[id].creator =>
            LET a == Voting_add_allowed_voter(Self, id, k, accounts)
                r == Voting_remove_allowed_voter(Self, id, k, accounts)
                c == Voting_close_vote(Self, id, accounts)
            IN  /\ a.res = Err("NotCreator") /\ a.self = Self
                /\ r.res = Err("NotCreator") /\ r.self = Self
                /\ c.res = Err("NotCreator") /\ c.self = Self

\* An open ballot and a closed one, each with some identities in the roster
\* and some not.
C3_Witness ==
    \E i, j \in DOMAIN votes :
        /\ votes[i].is_vote_open /\ ~votes[j].is_vote_open
        /\ \A id \in {i, j} :
               DOMAIN votes[id].allowed_voters \notin {{}, Pubkeys}

\* C4: get_results on an existing ballot with a caller named fails, at the
\* voter-not-allowed check, exactly when the ballot's results are
\* restricted and the caller is not in the roster; otherwise it returns the
\* current tally; it changes nothing, and the answer is the same with the
\* ballot's open flag the other way round.
C4_VisibilityGating ==
    \A id \in DOMAIN votes, accounts \in Callers :
        LET v == votes[id]
            hidden == /\ v.is_close_vote_results
                      /\ accounts[1] \notin DOMAIN v.allowed_voters
            g == Voting_get_results(Self, id, accounts)
            flipped == [Self EXCEPT !.votes[id].is_vote_open = ~@]
        IN  /\ ~g.res.ok <=> hidden
            /\ hidden => g.res = Err("VoterNotAllowed")
            /\ ~hidden => g.res = Ok(v.votes)
            /\ g.self = Self
            /\ Voting_get_results(flipped, id, accounts).res = g.res

\* A closed ballot with restricted results and a vote recorded, with one
\* identity in the roster and another outside it.
C4_Witness ==
    \E id \in closed :
        /\ votes[id].is_close_vote_results
        /\ votes[id].votes # EmptyMap
        /\ DOMAIN votes[id].allowed_voters \notin {{}, Pubkeys}

\* C5: a successful vote raises the count of the text at option_index by
\* exactly one (from 0 when the tally had no entry), lowers the voter's
\* votes_left by exactly one, and changes no other tally entry, no other
\* roster entry, no other field of the ballot, no other ballot and not
\* current_id.
C5_VoteEffect ==
    \A id \in DOMAIN votes, accounts \in Callers :
      \A i \in OptionIndices(id) :
        LET c == Voting_vote(Self, id, accounts, i)
            voter == accounts[1]
            old == votes[id]
            new == c.self.votes[id]
        IN  c.res.ok =>
            LET text == old.options[i + 1] IN
            /\ Count(new.votes, text) = Count(old.votes, text) + 1
            /\ DOMAIN new.votes = DOMAIN old.votes \cup {text}
            /\ \A t \in DOMAIN old.votes \ {text} : new.votes[t] = old.votes[t]
            /\ DOMAIN new.allowed_voters = DOMAIN old.allowed_voters
            /\ new.allowed_voters[voter].votes_left
                   = old.allowed_voters[voter].votes_left - 1
            /\ new.allowed_voters[voter].delegate
                   = old.allowed_voters[voter].delegate
            /\ \A k \in DOMAIN old.allowed_voters \ {voter} :
                   new.allowed_voters[k] = old.allowed_voters[k]
            /\ new = [old EXCEPT !.votes = new.votes,
                                 !.allowed_voters = new.allowed_voters]
            /\ c.self = [Self EXCEPT !.votes[id] = new]

\* A vote has been cast on an open ballot, and a roster member with
\* allowance left can raise that tally entry or start another one.
C5_Witness ==
    \E id \in DOMAIN votes :
        /\ votes[id].is_vote_open
        /\ \E i \in DOMAIN cast[id] : cast[id][i] >= 1
        /\ votes[id].votes # EmptyMap
        /\ \E k \in DOMAIN votes[id].allowed_voters :
               votes[id].allowed_voters[k].votes_left >= 1

\* C6 (as stated): a successful delegate_vote has the effect of these steps
\* in this order, for every delegate (in the roster, not in it, or the
\* delegator itself): the delegator's votes_left goes down by one and its
\* delegate becomes the delegate; then the delegate's entry is created as
\* {0, None} if absent and its votes_left goes up by one.  No other roster
\* entry and no tally entry changes, and the roster's total is unchanged.
C6_Original ==
    \A id \in DOMAIN votes, delegate \in Pubkeys, accounts \in Callers :
        LET d == Voting_delegate_vote(Self, id, delegate, accounts)
            delegator == accounts[1]
            old == votes[id]
            new == d.self.votes[id]
        IN  d.res.ok =>
            LET r1 == [old.allowed_voters EXCEPT
                          ![delegator] = VoterInfo(@.votes_left - 1, delegate)]
                r2 == IF delegate \in DOMAIN r1 THEN r1
                      ELSE [k \in DOMAIN r1 \cup {delegate} |->
                               IF k = delegate THEN VoterInfo(0, None)
                               ELSE r1[k]]
                r3 == [r2 EXCEPT ![delegate].votes_left = @ + 1]
            IN  /\ new.allowed_voters = r3
                /\ new.votes = old.votes
                /\ SumAllowance(new.allowed_voters)
                       = SumAllowance(old.allowed_voters)

\* The votes cast at the positions that hold the text position i holds.
CastForText(id, i) ==
    LET options == votes[id].options
        same == {j \in DOMAIN cast[id] : options[j + 1] = options[i + 1]}
    IN  SumOver(cast[id], same)

\* C7 (as stated): where the option list holds the same text at two
\* positions i and j, votes for i and votes for j are tallied separately:
\* the count reported for position i is the number of votes cast for
\* position i, votes cast for position j not included.
C7_Original ==
    \A id \in DOMAIN votes :
        \A i, j \in DOMAIN cast[id] :
            LET options == votes[id].options IN
            (i # j /\ options[i + 1] = options[j + 1]) =>
                Count(votes[id].votes, options[i + 1]) = cast[id][i]

\* C7 (amended): the tally is keyed by option text, so the count reported
\* for position i is the number of votes cast at all the positions that
\* hold the same text as position i; only votes for positions with another
\* text are tallied separately.
C7_SharedEntry ==
    \A id \in DOMAIN votes :
        \A i \in DOMAIN cast[id] :
            Count(votes[id].votes, votes[id].options[i + 1])
                = CastForText(id, i)

\* Votes have been cast at two positions that hold the same text.
C7_Witness ==
    \E id \in DOMAIN votes :
        \E i, j \in DOMAIN cast[id] :
            /\ i # j
            /\ votes[id].options[i + 1] = votes[id].options[j + 1]
            /\ cast[id][i] >= 1
            /\ cast[id][j] >= 1

\* C8: vote on an existing ballot with a caller named fails at the first
\* of these checks that fails, in this order, and then changes nothing:
\* voter not in the roster; ballot closed; votes_left = 0; option_index >=
\* number of options.  With none failing it succeeds.
C8_VoteChecks ==
    \A id \in DOMAIN votes, accounts \in Callers :
      \A i \in OptionIndices(id) :
        LET v == votes[id]
            voter == accounts[1]
            c == Voting_vote(Self, id, accounts, i)
            expected ==
                IF voter \notin DOMAIN v.allowed_voters
                THEN Err("VoterNotAllowed")
                ELSE IF ~v.is_vote_open THEN Err("BallotClosed")
                ELSE IF v.allowed_voters[voter].votes_left = 0
                THEN Err("NoAllowanceLeft")
                ELSE IF i >= Len(v.options) THEN Err("OptionIndexOutOfRange")
                ELSE Ok(<< >>)
        IN  /\ c.res = expected
            /\ ~c.res.ok => c.self = Self

\* On an open ballot a roster member has voted and has no allowance left,
\* and another identity is not in the roster.
C8_Witness ==
    \E id \in DOMAIN votes :
        /\ votes[id].is_vote_open
        /\ votes[id].votes # EmptyMap
        /\ \E k \in DOMAIN votes[id].allowed_voters :
               votes[id].allowed_voters[k].votes_left = 0
        /\ DOMAIN votes[id].allowed_voters # Pubkeys

\* C9: delegate_vote on an existing ballot with a caller named fails at the
\* first of these checks that fails, in this order, and then changes
\* nothing (no roster entry is created for the delegate): delegator not in
\* the roster; ballot closed; delegator's votes_left = 0.  With none
\* failing it succeeds.
C9_DelegateChecks ==
    \A id \in DOMAIN votes, delegate \in Pubkeys, accounts \in Callers :
        LET v == votes[id]
            delegator == accounts[1]
            d == Voting_delegate_vote(Self, id, delegate, accounts)
            expected ==
                IF delegator \notin DOMAIN v.allowed_voters
                THEN Err("VoterNotAllowed")
                ELSE IF ~v.is_vote_open THEN Err("BallotClosed")
                ELSE IF v.allowed_voters[delegator].votes_left = 0
                THEN Err("NoAllowanceLeft")
                ELSE Ok(<< >>)
        IN  /\ d.res = expected
            /\ ~d.res.ok => d.self = Self

\* On an open ballot a roster member has delegated and has no allowance
\* left, and another identity is not in the roster.
C9_Witness ==
    \E id \in DOMAIN votes :
        /\ votes[id].is_vote_open
        /\ \E k \in DOMAIN votes[id].allowed_voters :
               /\ votes[id].allowed_voters[k].votes_left = 0
               /\ votes[id].allowed_voters[k].delegate # None
        /\ DOMAIN votes[id].allowed_voters # Pubkeys

\* C10 (as stated): every dispatched operation called with a ballot id
\* that the registry does not hold fails at the ballot lookup and changes
\* nothing, also when the caller list is empty.
C10_Original ==
    \A id \in VoteIds \ DOMAIN votes, accounts \in AccountLists,
       k \in Pubkeys :
        LET NotFound(o) == o.res = Err("BallotNotFound") /\ o.self = Self
        IN  /\ \A i \in OptionIndices(id) :
                   NotFound(Voting_vote(Self, id, accounts, i))
            /\ NotFound(Voting_close_vote(Self, id, accounts))
            /\ NotFound(Voting_get_results(Self, id, accounts))
            /\ NotFound(Voting_add_allowed_voter(Self, id, k, accounts))
            /\ NotFound(Voting_remove_allowed_voter(Self, id, k, accounts))
            /\ NotFound(Voting_is_voter_allowed(Self, id, k))
            /\ NotFound(Voting_delegate_vote(Self, id, k, accounts))
            /\ NotFound(Voting_get_options(Self, id))

\* What a caller sees of a call's outcome beyond its value: whether it
\* failed, the error value, and (the model's addition) the check it failed at.
Outcome(o) == [ok |-> o.res.ok, err |-> o.res.err, site |-> o.res.site]

\* The outcomes of every call a caller can make in the current state.
AllOutcomes ==
    UNION {
        {Outcome(Voting_create_vote(Self, t, o, f, a)) :
            t \in Titles, o \in OptionLists, f \in BOOLEAN, a \in AccountLists}
        ,
        UNION {
            {Outcome(Voting_vote(Self, id, a, i)) :
                a \in AccountLists, i \in OptionIndices(id)}
            \cup {Outcome(Voting_close_vote(Self, id, a)) : a \in AccountLists}
            \cup {Outcome(Voting_get_results(Self, id, a)) :
                      a \in AccountLists}
            \cup {Outcome(Voting_add_allowed_voter(Self, id, k, a)) :
                      k \in Pubkeys, a \in AccountLists}
            \cup {Outcome(Voting_remove_allowed_voter(Self, id, k, a)) :
                      k \in Pubkeys, a \in AccountLists}
            \cup {Outcome(Voting_is_voter_allowed(Self, id, k)) :
                      k \in Pubkeys}
            \cup {Outcome(Voting_delegate_vote(Self, id, k, a)) :
                      k \in Pubkeys, a \in AccountLists}
            \cup {Outcome(Voting_get_options(Self, id))}
            : id \in VoteIds}
    }

\* C11 (as stated): failures of different causes are told apart by the
\* error value returned: two failing calls that return at the checks of two
\* different causes return different error values.
C11_Original ==
    \A r1, r2 \in AllOutcomes :
        (~r1.ok /\ ~r2.ok /\ r1.site # r2.site) => r1.err # r2.err

\* The creator of ballot id, as a caller list.
ByCreator(id) == <<votes[id].creator>>

\* C12: a successful add_allowed_voter by the creator on an open ballot
\* leaves the identity's entry exactly {votes_left: 1, delegate: None},
\* whatever it was before (absent, 0, or more than 1), and changes no other
\* roster entry, no tally entry and nothing else.
C12_EnrollReplaces ==
    \A id \in DOMAIN votes, k \in Pubkeys :
        LET a == Voting_add_allowed_voter(Self, id, k, ByCreator(id))
            old == votes[id]
            new == a.self.votes[id]
        IN  /\ a.res.ok <=> old.is_vote_open
            /\ a.res.ok =>
                /\ new.allowed_voters[k] = [votes_left |-> 1, delegate |-> None]
                /\ DOMAIN new.allowed_voters = DOMAIN old.allowed_voters \cup {k}
                /\ \A j \in DOMAIN old.allowed_voters \ {k} :
                       new.allowed_voters[j] = old.allowed_voters[j]
                /\ new.votes = old.votes
                /\ new = [old EXCEPT !.allowed_voters = new.allowed_voters]
                /\ a.self = [Self EXCEPT !.votes[id] = new]

\* An open ballot on which two enrollments have succeeded, with one entry
\* holding more than 1 and another holding 0 with a delegate set.
C12_Witness ==
    \E id \in DOMAIN votes :
        /\ votes[id].is_vote_open
        /\ enrolls[id] >= 2
        /\ \E j, k \in DOMAIN votes[id].allowed_voters :
               /\ votes[id].allowed_voters[j].votes_left >= 2
               /\ votes[id].allowed_voters[k].votes_left = 0
               /\ votes[id].allowed_voters[k].delegate # None

\* C13: remove_allowed_voter by the creator on an open ballot removes the
\* identity's entry if it is in the roster: afterwards is_voter_allowed is
\* false for it and its vote fails at the roster check; the allowance it
\* held is in no other entry, and the tally is unchanged.  If the identity
\* is not in the roster the call fails at the voter-not-found check and
\* changes nothing.
C13_RevokeRemoves ==
    \A id \in DOMAIN votes, k \in Pubkeys :
        votes[id].is_vote_open =>
            LET r == Voting_remove_allowed_voter(Self, id, k, ByCreator(id))
                old == votes[id]
                new == r.self.votes[id]
            IN  IF k \in DOMAIN old.allowed_voters
                THEN /\ r.res = Ok(<< >>)
                     /\ DOMAIN new.allowed_voters
                            = DOMAIN old.allowed_voters \ {k}
                     /\ \A j \in DOMAIN new.allowed_voters :
                            new.allowed_voters[j] = old.allowed_voters[j]
                     /\ new.votes = old.votes
                     /\ new = [old EXCEPT !.allowed_voters = new.allowed_voters]
                     /\ r.self = [Self EXCEPT !.votes[id] = new]
                     /\ Voting_is_voter_allowed(r.self, id, k).res = Ok(FALSE)
                     /\ \A i \in OptionIndices(id) :
                            Voting_vote(r.self, id, <<k>>, i).res
                                = Err("VoterNotAllowed")
                ELSE /\ r.res = Err("VoterNotFound")
                     /\ r.self = Self

\* An open ballot whose only enrolled identity voted and was then removed:
\* the roster is empty and the vote is still in the tally.
C13_Witness ==
    \E id \in DOMAIN votes :
        /\ votes[id].is_vote_open
        /\ enrolls[id] >= 1
        /\ votes[id].allowed_voters = EmptyMap
        /\ votes[id].votes # EmptyMap

\* One call with the registry it leaves: the handler, the ballot id, the
\* identity and the caller list passed (id -1 for create_vote, which takes
\* none; voter None for the handlers that take none), whether it succeeded,
\* and the registry afterwards.
Effect(op, id, voter, accounts, o) ==
    [op |-> op, id |-> id, voter |-> voter, accounts |-> accounts,
     ok |-> o.res.ok, self |-> o.self]

\* P holds of the effect of every call a caller can make in the current state.
EveryEffect(P(_)) ==
    /\ \A t \in Titles, o \in OptionLists, f \in BOOLEAN, a \in AccountLists :
           P(Effect("create_vote", -1, None, a,
                    Voting_create_vote(Self, t, o, f, a)))
    /\ \A id \in VoteIds :
        /\ \A a \in AccountLists :
            /\ \A i \in OptionIndices(id) :
                   P(Effect("vote", id, None, a, Voting_vote(Self, id, a, i)))
            /\ P(Effect("close_vote", id, None, a,
                        Voting_close_vote(Self, id, a)))
            /\ P(Effect("get_results", id, None, a,
                        Voting_get_results(Self, id, a)))
            /\ \A k \in Pubkeys :
                /\ P(Effect("add_allowed_voter", id, k, a,
                            Voting_add_allowed_voter(Self, id, k, a)))
                /\ P(Effect("remove_allowed_voter", id, k, a,
                            Voting_remove_allowed_voter(Self, id, k, a)))
                /\ P(Effect("delegate_vote", id, k, a,
                            Voting_delegate_vote(Self, id, k, a)))
        /\ \A k \in Pubkeys :
               P(Effect("is_voter_allowed", id, k, << >>,
                        Voting_is_voter_allowed(Self, id, k)))
        /\ P(Effect("get_options", id, None, << >>,
                    Voting_get_options(Self, id)))

\* C14: is_vote_open is one-way.  In every reachable state a ballot is
\* open exactly if no close_vote has succeeded on it (closed records the
\* ids on which one has, and only grows), so a new ballot is open, only a
\* successful close_vote closes a ballot and nothing reopens it.
\* close_vote succeeds exactly for the creator and leaves the ballot
\* closed; on a ballot already closed it changes nothing; and no vote,
\* add_allowed_voter, remove_allowed_voter, delegate_vote or create_vote
\* call sets the flag of a closed ballot.
C14_OpenOneWay ==
    /\ closed \subseteq DOMAIN votes
    /\ \A id \in DOMAIN votes :
        /\ votes[id].is_vote_open <=> id \notin closed
        /\ \A a \in AccountLists :
            LET c == Voting_close_vote(Self, id, a)
            IN  /\ c.res.ok <=> a = ByCreator(id)
                /\ c.res.ok => ~c.self.votes[id].is_vote_open
                /\ ~c.res.ok => c.self = Self
                /\ ~votes[id].is_vote_open => c.self = Self
        /\ ~votes[id].is_vote_open =>
            /\ \A a \in AccountLists :
                /\ \A i \in OptionIndices(id) :
                       ~Voting_vote(Self, id, a, i).self.votes[id].is_vote_open
                /\ \A k \in Pubkeys :
                    /\ ~Voting_add_allowed_voter(Self, id, k, a)
                            .self.votes[id].is_vote_open
                    /\ ~Voting_remove_allowed_voter(Self, id, k, a)
                            .self.votes[id].is_vote_open
                    /\ ~Voting_delegate_vote(Self, id, k, a)
                            .self.votes[id].is_vote_open
            /\ \A t \in Titles, o \in OptionLists, f \in BOOLEAN,
                  a \in AccountLists :
                   ~Voting_create_vote(Self, t, o, f, a)
                       .self.votes[id].is_vote_open
    /\ \A t \in Titles, o \in OptionLists, f \in BOOLEAN, a \in Callers :
        LET c == Voting_create_vote(Self, t, o, f, a)
        IN  c.self.votes[c.res.val].is_vote_open

\* A closed ballot with a roster member who has allowance left, beside an
\* open ballot.
C14_Witness ==
    \E id, other \in DOMAIN votes :
        /\ id \in closed
        /\ ~votes[id].is_vote_open
        /\ \E k \in DOMAIN votes[id].allowed_voters :
               votes[id].allowed_voters[k].votes_left > 0
        /\ votes[other].is_vote_open

\* C15: ballot ids are allocated in sequence from 0.  In every reachable
\* state the keys of votes are exactly 0..current_id-1 and are exactly the
\* ids the successful create_vote calls have returned so far (enrolls has
\* a key for each and loses none, so the k-th call returned k-1, keys are
\* never removed and current_id never falls); each ballot's id field is
\* its key; and a successful create_vote returns current_id, which was
\* never returned before, inserts that key and advances current_id by one,
\* while a failing one changes neither.  (The counter is a u32; the states
\* checked are far below its maximum.)
C15_IdSequence ==
    /\ DOMAIN votes = 0..(current_id - 1)
    /\ DOMAIN enrolls = DOMAIN votes
    /\ \A id \in DOMAIN votes : votes[id].id = id
    /\ \A t \in Titles, o \in OptionLists, f \in BOOLEAN, a \in AccountLists :
        LET c == Voting_create_vote(Self, t, o, f, a)
        IN  IF a = << >>
            THEN /\ ~c.res.ok
                 /\ c.self.current_id = current_id
                 /\ DOMAIN c.self.votes = DOMAIN votes
            ELSE /\ c.res = Ok(current_id)
                 /\ c.res.val \notin DOMAIN enrolls
                 /\ c.self.current_id = current_id + 1
                 /\ DOMAIN c.self.votes = DOMAIN votes \cup {current_id}
                 /\ c.self.votes[current_id].id = current_id

\* Two create_vote calls have succeeded and calls on both ballots followed.
C15_Witness ==
    /\ current_id = 2
    /\ DOMAIN enrolls = {0, 1}
    /\ enrolls[0] >= 1
    /\ enrolls[1] >= 1

\* Caller lists of two identities, where the first differs from the rest.
CallerPairs == {<<j, k>> : j, k \in Pubkeys}

\* C16: create_vote with an empty caller list fails at the no-caller check
\* and leaves the registry as it was (no ballot inserted, current_id not
\* advanced); with a non-empty list it succeeds and the new ballot has the
\* list's first identity as creator, is open, has an empty roster (the
\* creator is not enrolled) and an empty tally, and every ballot that
\* existed is unchanged.
C16_CreateBallot ==
    \A t \in Titles, o \in OptionLists, f \in BOOLEAN,
       a \in AccountLists \cup CallerPairs :
        LET c == Voting_create_vote(Self, t, o, f, a)
        IN  IF a = << >>
            THEN /\ c.res = Err("NoCaller")
                 /\ c.self = Self
            ELSE /\ c.res.ok
                 /\ c.res.val \in DOMAIN c.self.votes
                 /\ c.res.val \notin DOMAIN votes
                 /\ LET new == c.self.votes[c.res.val]
                    IN  /\ new.creator = a[1]
                        /\ new.is_vote_open
                        /\ new.allowed_voters = EmptyMap
                        /\ new.votes = EmptyMap
                        /\ new.title = t
                        /\ new.options = o
                        /\ new.is_close_vote_results = f
                 /\ Voting_is_voter_allowed(c.self, c.res.val, a[1]).res
                        = Ok(FALSE)
                 /\ \A id \in DOMAIN votes : c.self.votes[id] = votes[id]

\* A second ballot was created after the first had gained a roster member
\* and a vote: the new one has neither, the first has kept both.
C16_Witness ==
    /\ DOMAIN votes = {0, 1}
    /\ votes[0].allowed_voters # EmptyMap
    /\ votes[0].votes # EmptyMap
    /\ votes[1].allowed_voters = EmptyMap
    /\ votes[1].votes = EmptyMap
    /\ votes[1].is_vote_open
    /\ votes[1].creator = "k1"
    /\ calls = 4

\* The texts of a ballot's option list.
OptionTexts(v) == {v.options[i] : i \in 1..Len(v.options)}

\* C17: in every ballot the keys of the tally are texts of its option list;
\* a text has an entry exactly if a vote for a position holding that text
\* has succeeded; and no call of any handler removes an entry or lowers a
\* count: the tally of a ballot changes only by a successful vote on it.
C17_TallyIntegrity ==
    LET TallyKept(e) ==
            e.self = Self \/
            \A id \in DOMAIN votes :
                LET old == votes[id].votes
                    new == e.self.votes[id].votes
                IN  \/ new = old
                    \/ /\ e.op = "vote" /\ e.id = id /\ e.ok
                       /\ DOMAIN old \subseteq DOMAIN new
                       /\ \A text \in DOMAIN old : new[text] >= old[text]
                       /\ DOMAIN new \subseteq OptionTexts(votes[id])
    IN  /\ \A id \in DOMAIN votes :
            /\ DOMAIN votes[id].votes \subseteq OptionTexts(votes[id])
            /\ \A text \in OptionTexts(votes[id]) :
                   text \in DOMAIN votes[id].votes
                       <=> \E i \in DOMAIN cast[id] :
                               /\ votes[id].options[i + 1] = text
                               /\ cast[id][i] > 0
            /\ \A text \in DOMAIN votes[id].votes : votes[id].votes[text] >= 1
        /\ EveryEffect(TallyKept)

\* A ballot with a vote in its tally and an option text nobody voted for,
\* after the voter was removed and the ballot closed.
C17_Witness ==
    \E id \in DOMAIN votes :
        /\ votes[id].votes # EmptyMap
        /\ OptionTexts(votes[id]) \ DOMAIN votes[id].votes # {}
        /\ votes[id].allowed_voters = EmptyMap
        /\ id \in closed

\* C18: get_results leaves the registry as it was, whatever it returns, so
\* a second get_results on the same ballot by the same caller, made on the
\* registry the first one left, returns what the first returned: the same
\* tally map (the ballot's tally) or the same failure.
C18_IdempotentRead ==
    \A id \in VoteIds, a \in AccountLists :
        LET first == Voting_get_results(Self, id, a)
            second == Voting_get_results(first.self, id, a)
        IN  /\ first.self = Self
            /\ second.self = Self
            /\ second.res = first.res
            /\ first.res.ok => first.res.val = votes[id].votes

\* A results-restricted ballot with votes in its tally, one identity in the
\* roster and one outside it: the read returns a non-empty map to the first
\* and fails for the second.
C18_Witness ==
    \E id \in DOMAIN votes :
        /\ votes[id].is_close_vote_results
        /\ votes[id].votes # EmptyMap
        /\ \E j, k \in Pubkeys :
               /\ Voting_get_results(Self, id, <<j>>).res.ok
               /\ ~Voting_get_results(Self, id, <<k>>).res.ok

\* C19: delegate_vote to an identity that is not in the roster succeeds
\* when the delegator is in the roster of an open ballot with allowance
\* left, and gives the identity the entry {votes_left: 1, delegate: None}.
\* In the registry the call leaves, with no add_allowed_voter call for the
\* identity, is_voter_allowed is true for it, its vote succeeds, its
\* delegate_vote to any identity succeeds, and its get_results succeeds
\* whether or not the ballot's results are restricted (on a restricted
\* ballot it failed before the delegation).
C19_PermissiveDelegation ==
    \A id \in DOMAIN votes :
        LET v == votes[id] IN
        \A d \in DOMAIN v.allowed_voters, k \in Pubkeys \ DOMAIN v.allowed_voters :
            (v.is_vote_open /\ v.allowed_voters[d].votes_left > 0) =>
                LET g == Voting_delegate_vote(Self, id, k, <<d>>)
                    after == g.self
                IN  /\ g.res = Ok(<< >>)
                    /\ after.votes[id].allowed_voters[k]
                           = [votes_left |-> 1, delegate |-> None]
                    /\ Voting_is_voter_allowed(Self, id, k).res = Ok(FALSE)
                    /\ Voting_is_voter_allowed(after, id, k).res = Ok(TRUE)
                    /\ \A i \in 0..(Len(v.options) - 1) :
                           Voting_vote(after, id, <<k>>, i).res = Ok(<< >>)
                    /\ \A j \in Pubkeys :
                           Voting_delegate_vote(after, id, j, <<k>>).res
                               = Ok(<< >>)
                    /\ Voting_get_results(after, id, <<k>>).res = Ok(v.votes)
                    /\ v.is_close_vote_results =>
                           Voting_get_results(Self, id, <<k>>).res
                               = Err("VoterNotAllowed")

\* A results-restricted ballot with one enrollment ever, whose enrolled
\* identity delegated to another: that other identity, never enrolled, is
\* in the roster, has voted, and reads the results.
C19_Witness ==
    \E id \in DOMAIN votes :
        /\ votes[id].is_close_vote_results
        /\ enrolls[id] = 1
        /\ votes[id].votes # EmptyMap
        /\ \E d, k \in DOMAIN votes[id].allowed_voters :
               /\ d # k
               /\ votes[id].allowed_voters[d] = [votes_left |-> 0, delegate |-> k]
               /\ votes[id].allowed_voters[k] = [votes_left |-> 0, delegate |-> None]
               /\ Voting_get_results(Self, id, <<k>>).res = Ok(votes[id].votes)

\* C20 (as stated): no add_allowed_voter call on an identity already in the
\* roster leaves that identity with more votes_left than it had before.
C20_Original ==
    \A id \in DOMAIN votes, k \in Pubkeys, a \in AccountLists :
        LET e == Voting_add_allowed_voter(Self, id, k, a)
        IN  (e.res.ok /\ k \in DOMAIN votes[id].allowed_voters) =>
                e.self.votes[id].allowed_voters[k].votes_left
                    <= votes[id].allowed_voters[k].votes_left

\* C20 (amended): an entry starts with votes_left 1, on enrollment or as
\* the target of a delegation.  A successful add_allowed_voter on an
\* identity already in the roster leaves it with exactly 1: more than it
\* had exactly if it had 0, fewer if it had more than 1.  Apart from that
\* reset of an entry holding 0, votes_left of an entry rises only by a
\* successful delegate_vote to that identity by another, and then by 1.
C20_EnrollResets ==
    LET Rises(e) ==
            e.self = Self \/
            \A id \in DOMAIN votes :
                LET old == votes[id].allowed_voters
                    new == e.self.votes[id].allowed_voters
                IN  \/ new = old
                    \/ /\ \A k \in DOMAIN new \ DOMAIN old :
                           /\ new[k].votes_left = 1
                           /\ e.op \in {"add_allowed_voter", "delegate_vote"}
                           /\ e.id = id /\ e.voter = k /\ e.ok
                       /\ \A k \in DOMAIN new \cap DOMAIN old :
                           new[k].votes_left > old[k].votes_left =>
                               /\ e.id = id /\ e.voter = k /\ e.ok
                               /\ \/ /\ e.op = "delegate_vote"
                                     /\ e.accounts # <<k>>
                                     /\ new[k].votes_left = old[k].votes_left + 1
                                  \/ /\ e.op = "add_allowed_voter"
                                     /\ old[k].votes_left = 0
                                     /\ new[k].votes_left = 1
    IN  /\ EveryEffect(Rises)
        /\ \A id \in DOMAIN votes : \A k \in DOMAIN votes[id].allowed_voters :
            LET e == Voting_add_allowed_voter(Self, id, k, ByCreator(id))
                was == votes[id].allowed_voters[k].votes_left
                is == e.self.votes[id].allowed_voters[k].votes_left
            IN  votes[id].is_vote_open =>
                    /\ e.res.ok
                    /\ is = 1
                    /\ is > was <=> was = 0
                    /\ is < was <=> was > 1

\* An identity was enrolled, voted, and was enrolled again: it is the only
\* roster member, holds 1 again, and its vote is in the tally.
C20_Witness ==
    \E id \in DOMAIN votes :
        /\ calls = 4
        /\ enrolls[id] = 2
        /\ votes[id].votes # EmptyMap
        /\ \E k \in Pubkeys :
               /\ DOMAIN votes[id].allowed_voters = {k}
               /\ votes[id].allowed_voters[k] = [votes_left |-> 1, delegate |-> None]

\* C21: a closed ballot is frozen.  No call of any handler, with any input
\* and addressed to any ballot id, changes the roster (membership,
\* votes_left, delegate), the tally or any other field of a ballot on which
\* close_vote has succeeded, and on the registry the call leaves
\* get_results (for every caller) and get_options return for that ballot
\* what they return now.
C21_ClosedFrozen ==
    LET Frozen(e) ==
            \/ e.self = Self
            \/ \A id \in closed :
                /\ e.self.votes[id].allowed_voters = votes[id].allowed_voters
                /\ e.self.votes[id].votes = votes[id].votes
                /\ e.self.votes[id] = votes[id]
                /\ \A a \in AccountLists :
                       Voting_get_results(e.self, id, a).res
                           = Voting_get_results(Self, id, a).res
                /\ Voting_get_options(e.self, id).res
                       = Voting_get_options(Self, id).res
    IN  /\ \A id \in closed : ~votes[id].is_vote_open
        /\ closed # {} => EveryEffect(Frozen)

\* A ballot closed with a roster member holding allowance and a vote in its
\* tally, and a ballot created after it.
C21_Witness ==
    \E id, later \in DOMAIN votes :
        /\ id \in closed
        /\ id < later
        /\ votes[id].votes # EmptyMap
        /\ votes[id].allowed_voters # EmptyMap
        /\ calls = 5

\* Successful writing calls within which pairs of calls are compared.
PairCalls == 3

\* The calls that are dispatched to a ballot id: the handler, and the
\* identity, caller list and option index passed (None, << >> and 0 where
\* the handler takes none).
CallsOn(id) ==
    {[op |-> "vote", voter |-> None, accounts |-> a, index |-> i] :
        a \in AccountLists, i \in OptionIndices(id)}
    \cup {[op |-> op, voter |-> None, accounts |-> a, index |-> 0] :
        op \in {"close_vote", "get_results"}, a \in AccountLists}
    \cup {[op |-> op, voter |-> k, accounts |-> a, index |-> 0] :
        op \in {"add_allowed_voter", "remove_allowed_voter", "delegate_vote"},
        k \in Pubkeys, a \in AccountLists}
    \cup {[op |-> "is_voter_allowed", voter |-> k, accounts |-> << >>,
           index |-> 0] : k \in Pubkeys}
    \cup {[op |-> "get_options", voter |-> None, accounts |-> << >>,
           index |-> 0]}

\* The call c, addressed to ballot id, made on the registry self.
Apply(c, id, self) ==
    CASE c.op = "vote" -> Voting_vote(self, id, c.accounts, c.index)
      [] c.op = "close_vote" -> Voting_close_vote(self, id, c.accounts)
      [] c.op = "get_results" -> Voting_get_results(self, id, c.accounts)
      [] c.op = "add_allowed_voter" ->
             Voting_add_allowed_voter(self, id, c.voter, c.accounts)
      [] c.op = "remove_allowed_voter" ->
             Voting_remove_allowed_voter(self, id, c.voter, c.accounts)
      [] c.op = "delegate_vote" ->
             Voting_delegate_vote(self, id, c.voter, c.accounts)
      [] c.op = "is_voter_allowed" -> Voting_is_voter_allowed(self, id, c.voter)
      [] c.op = "get_options" -> Voting_get_options(self, id)

\* Two results of one call are the same result.
SameRes(r1, r2) ==
    /\ r1.ok = r2.ok
    /\ r1.site = r2.site
    /\ (r1.ok /\ r2.ok) => r1.val = r2.val

\* C22: a call dispatched to ballot id i leaves current_id, the set of
\* keys and every ballot other than i as they were, and calls addressed to
\* different ids commute: for a call p on i and a call q on j # i, p then q
\* and q then p leave the same registry, p returns the same whether q went
\* before it or not, and so does q.  (Pairs are compared in the states
\* reached by at most PairCalls successful writing calls, with p ranging
\* over the calls that change the registry; a pair of calls that both
\* change nothing commutes by the first part.)
C22_Independence ==
    \A i \in VoteIds : \A p \in CallsOn(i) :
        LET a == Apply(p, i, Self)
        IN  /\ a.self.current_id = current_id
            /\ DOMAIN a.self.votes = DOMAIN votes
            /\ \A j \in DOMAIN votes \ {i} : a.self.votes[j] = votes[j]
            /\ (calls <= PairCalls /\ a.self # Self) =>
                \A j \in VoteIds \ {i} : \A q \in CallsOn(j) :
                    LET b == Apply(q, j, Self)
                        ab == Apply(q, j, a.self)
                        ba == Apply(p, i, b.self)
                    IN  /\ SameRes(ab.res, b.res)
                        /\ SameRes(ba.res, a.res)
                        /\ ab.self = ba.self

\* Two ballots on each of which a writing call has succeeded, with calls
\* that would change either one still possible.
C22_Witness ==
    /\ calls <= PairCalls
    /\ \E i, j \in DOMAIN votes :
        /\ i # j
        /\ votes[i].allowed_voters # EmptyMap
        /\ \E p \in CallsOn(i), q \in CallsOn(j) :
               /\ p.op = "vote"
               /\ Apply(p, i, Self).self # Self
               /\ Apply(q, j, Self).self # Self

\* C23 (as stated): the ballot id counter never wraps.  A create_vote made
\* with current_id at u32::MAX does not return with current_id wrapped to 0
\* (it ends in a panic), and so no create_vote replaces a ballot that is
\* stored.
C23_Original ==
    [][/\ current_id = U32Max => current_id' # 0
       /\ \A id \in DOMAIN votes :
              votes[id].votes # EmptyMap => votes'[id].votes # EmptyMap]_vars

\* C24: a call that returns an error leaves the registry exactly as it
\* was: current_id, the set of ballots and every field of every ballot.
\* This holds of every call of every handler, with any input, in every
\* reachable state.
C24_FailureAtomicity ==
    LET Atomic(e) == e.ok \/ (e.self.current_id = current_id
                              /\ e.self.votes = votes)
    IN  EveryEffect(Atomic)

\* An open ballot with votes in its tally, one roster member without
\* allowance and one with: calls on it fail at the allowance check, the
\* index check, the roster check and the creator check.
C24_Witness ==
    \E id \in DOMAIN votes :
        /\ votes[id].votes # EmptyMap
        /\ \E j, k \in DOMAIN votes[id].allowed_voters, n \in Pubkeys :
            /\ Voting_vote(Self, id, <<j>>, 0).res = Err("NoAllowanceLeft")
            /\ Voting_delegate_vote(Self, id, k, <<j>>).res
                   = Err("NoAllowanceLeft")
            /\ Voting_vote(Self, id, <<k>>, Len(votes[id].options)).res
                   = Err("OptionIndexOutOfRange")
            /\ Voting_vote(Self, id, <<n>>, 0).res = Err("VoterNotAllowed")
            /\ Voting_remove_allowed_voter(Self, id, k, <<n>>).res
                   = Err("NotCreator")

\* C25: no vote is lost or counted twice.  In every ballot the counts of
\* the tally sum to the number of vote calls on it that succeeded, and a
\* vote call succeeds only for a caller that is in the roster with
\* votes_left >= 1 on an open ballot; it then adds exactly one to the sum.
C25_VotesCounted ==
    \A id \in DOMAIN votes :
        /\ TotalVotes(votes[id].votes) = SumOver(cast[id], DOMAIN cast[id])
        /\ \A a \in AccountLists, i \in OptionIndices(id) :
            LET o == Voting_vote(Self, id, a, i)
            IN  o.res.ok =>
                    /\ a # << >>
                    /\ a[1] \in DOMAIN votes[id].allowed_voters
                    /\ votes[id].allowed_voters[a[1]].votes_left >= 1
                    /\ votes[id].is_vote_open
                    /\ TotalVotes(o.self.votes[id].votes)
                           = TotalVotes(votes[id].votes) + 1

\* A ballot on which two votes have succeeded for the same option text.
C25_Witness ==
    \E id \in DOMAIN votes :
        \E text \in DOMAIN votes[id].votes :
            /\ votes[id].votes[text] = 2
            /\ SumOver(cast[id], DOMAIN cast[id]) = 2

====
